---- MODULE Spec2Model ----
(***************************************************************************)
(* PFSExtractor: the PFS container decoders (src/src/parser.rs) and the    *)
(* recursive extraction engine pfs_extract (src/src/main.rs).              *)
(*                                                                         *)
(* Buffers are sequences of bytes (0..255).  Strings (section names, file  *)
(* names) are sequences of Unicode code points.  A decoder result is a     *)
(* record [ok, rest, val]: ok = FALSE stands for every Err of nom (Error   *)
(* and Incomplete alike: every caller treats them alike).                  *)
(***************************************************************************)
EXTENDS Integers, Sequences, FiniteSets, TLC

VARIABLES
    call,      \* the pending call of pfs_extract: [active, data, prefix]
    stack,     \* the running calls of pfs_extract, innermost last: [sections, i, prefix]
    files,     \* the files write_file has created, in order: [name, data]
    status,    \* "running", "done" (main returned) or "panic" (the process aborted)
    last,      \* what the last step did (decode result, or the section's event log)
    checks,    \* the build traps integer overflow (debug profile) or wraps (release)
    probe      \* the input and the result of a decoder applied on its own

vars == <<call, stack, files, status, last, checks, probe>>

----------------------------------------------------------------------------
(* Bounds of the model *)

MaxOthers == 3      \* non-information sections of a generated container
MaxNames == 3       \* records of a generated information section
MaxChunks == 3      \* chunk sections of a generated subsection
MaxN == 2           \* sections of a round-trip buffer

----------------------------------------------------------------------------
(* Bytes and strings *)

Take(s, n) == SubSeq(s, 1, n)
Drop(s, n) == SubSeq(s, n + 1, Len(s))
Zeros(n) == [k \in 1..n |-> 0]

HDR_MAGIC == <<80, 70, 83, 46, 72, 68, 82, 46>>                  \* b"PFS.HDR."
FTR_MAGIC == <<80, 70, 83, 46, 70, 84, 82, 46>>                  \* b"PFS.FTR."
ZLIB_MAGIC == <<170, 238, 170, 118, 27, 236, 187, 32, 241, 230, 81>>
INFO_TERM == <<0, 0>>                                            \* "\x00\x00"

STR_SECTION_INFO == <<83, 101, 99, 116, 105, 111, 110, 32, 73, 110, 102, 111>>
STR_MODEL_PROPERTIES ==
    <<77, 111, 100, 101, 108, 32, 80, 114, 111, 112, 101, 114, 116, 105, 101, 115>>
STR_SECTION_ == <<115, 101, 99, 116, 105, 111, 110, 95>>         \* "section_"
STR_DATA == <<100, 97, 116, 97>>                                 \* "data"
STR_DATA_SIG == <<100, 97, 116, 97, 46, 115, 105, 103>>          \* "data.sig"
STR_META == <<109, 101, 116, 97>>                                \* "meta"
STR_META_SIG == <<109, 101, 116, 97, 46, 115, 105, 103>>         \* "meta.sig"
STR_DECOMPRESSED == <<100, 101, 99, 111, 109, 112, 114, 101, 115, 115, 101, 100>>
STR_DATA_PAYLOAD == <<100, 97, 116, 97, 46, 112, 97, 121, 108, 111, 97, 100>>
UNDERSCORE == <<95>>                                             \* "_"
DOT == <<46>>                                                    \* "."
SPACE == <<32>>                                                  \* " "

\* nom::le_u16, le_u32 at a 0-based offset of s (the caller checks the length)
le_u16(s, off) == s[off + 1] + 256 * s[off + 2]
le_u32(s, off) ==
    s[off + 1] + 256 * s[off + 2] + 65536 * s[off + 3] + 16777216 * s[off + 4]
\* nom::le_u64, kept as its two 32-bit halves <<low, high>>
le_u64(s, off) == <<le_u32(s, off), le_u32(s, off + 4)>>

\* F(v), with v evaluated once however often F uses it
Let(v, F(_)) == CHOOSE r \in {F(x) : x \in {v}} : TRUE

Fail == [ok |-> FALSE, rest |-> <<>>, val |-> <<>>]
Ok(rest, val) == [ok |-> TRUE, rest |-> rest, val |-> val]

\* Option<&[u8]>
None == [some |-> FALSE, v |-> <<>>]
Some(v) == [some |-> TRUE, v |-> v]

----------------------------------------------------------------------------
(* parser.rs *)

HEADER_LEN == 16
FOOTER_LEN == 16
SECTION_HEADER_LEN == 72

pfs_header(input) ==
    IF Len(input) >= HEADER_LEN /\ Take(input, 8) = HDR_MAGIC
    THEN Ok(Drop(input, HEADER_LEN),
            [header_version |-> le_u32(input, 8), data_size |-> le_u32(input, 12)])
    ELSE Fail

pfs_footer(input) ==
    IF Len(input) >= FOOTER_LEN /\ SubSeq(input, 9, 16) = FTR_MAGIC
    THEN Ok(Drop(input, FOOTER_LEN),
            [checksum |-> le_u32(input, 4), data_size |-> le_u32(input, 0)])
    ELSE Fail

\* the caller checks the length
guid(s, off) ==
    [data1 |-> le_u32(s, off), data2 |-> le_u16(s, off + 4),
     data3 |-> le_u16(s, off + 6), data4 |-> SubSeq(s, off + 9, off + 16)]

\* take!(size) without the condition: a blob of size zero is Some(empty)
CondTake_Always(input, size) ==
    IF Len(input) >= size THEN Ok(Drop(input, size), Some(Take(input, size))) ELSE Fail

\* cond_with_error!(size > 0, take!(size)) on what is left of the input
CondTake(input, size) ==
    IF size = 0 THEN Ok(input, None)
    ELSE IF Len(input) >= size THEN Ok(Drop(input, size), Some(Take(input, size)))
    ELSE Fail

pfs_section(input) ==
    IF Len(input) < SECTION_HEADER_LEN THEN Fail
    ELSE
        LET ds  == le_u32(input, 40)
            dss == le_u32(input, 44)
            ms  == le_u32(input, 48)
            mss == le_u32(input, 52)
            dp  == CondTake(Drop(input, SECTION_HEADER_LEN), ds)
            dsp == IF dp.ok THEN CondTake(dp.rest, dss) ELSE Fail
            mp  == IF dsp.ok THEN CondTake(dsp.rest, ms) ELSE Fail
            msp == IF mp.ok THEN CondTake(mp.rest, mss) ELSE Fail
        IN  IF ~msp.ok THEN Fail
            ELSE Ok(msp.rest,
                    [name |-> <<>>,
                     guid |-> guid(input, 0),
                     header_version |-> le_u32(input, 16),
                     version_type |-> SubSeq(input, 21, 24),
                     version |-> [j \in 1..4 |-> le_u16(input, 24 + 2 * (j - 1))],
                     reserved |-> le_u64(input, 32),
                     data_size |-> ds,
                     data_sig_size |-> dss,
                     meta_size |-> ms,
                     meta_sig_size |-> mss,
                     unknown |-> SubSeq(input, 57, 72),
                     data |-> dp.val,
                     data_sig |-> dsp.val,
                     meta |-> mp.val,
                     meta_sig |-> msp.val])

\* many_till!(pfs_section, pfs_footer): the footer is tried first at every position
RECURSIVE many_till(_, _)
many_till(input, acc) ==
    Let(pfs_footer(input), LAMBDA f :
        IF f.ok THEN Ok(f.rest, <<acc, f.val>>)
        ELSE Let(pfs_section(input), LAMBDA s :
                 IF ~s.ok THEN Fail
                 ELSE many_till(s.rest, Append(acc, s.val))))

pfs_file(input) ==
    Let(pfs_header(input), LAMBDA h :
        IF ~h.ok THEN Fail
        ELSE Let(many_till(h.rest, <<>>), LAMBDA sf :
                 IF ~sf.ok THEN Fail
                 ELSE Ok(sf.rest, [header |-> h.val, sections |-> sf.val[1],
                                   footer |-> sf.val[2]])))

CHUNK_ORDER_OFFSET == 62       \* 0x3E
CHUNK_HEADER_LEN == 584        \* 0x248
ZLIB_TRAILER_LEN == 16
INFO_FIXED_LEN == 34

pfs_compressed_section(input) ==
    IF Len(input) < 4 THEN Fail
    ELSE LET s == le_u32(input, 0) IN
         IF /\ Len(input) >= 16
            /\ SubSeq(input, 5, 15) = ZLIB_MAGIC
            /\ Len(input) - 16 >= s
            /\ Len(input) - 16 - s >= ZLIB_TRAILER_LEN
         THEN Ok(Drop(input, 16 + s + ZLIB_TRAILER_LEN),
                 [size |-> s, data |-> SubSeq(input, 17, 16 + s)])
         ELSE Fail

pfs_chunk(input) ==
    IF Len(input) >= CHUNK_HEADER_LEN
    THEN Ok(<<>>, [order_number |-> le_u16(input, CHUNK_ORDER_OFFSET),
                   data |-> Drop(input, CHUNK_HEADER_LEN)])
    ELSE Fail

\* an order under which chunks of equal order number swap
ChunkLe_Strict(a, b) == a.order_number < b.order_number

\* impl Ord for PfsChunk: chunks compare by order_number alone
ChunkLe(a, b) == a.order_number <= b.order_number

IsHighSurrogate(u) == u >= 55296 /\ u <= 56319       \* 0xD800..0xDBFF
IsLowSurrogate(u) == u >= 56320 /\ u <= 57343        \* 0xDC00..0xDFFF
REPLACEMENT_CHARACTER == 65533                       \* U+FFFD

\* String::from_utf16_lossy: a surrogate pair is one code point, an unpaired
\* surrogate is U+FFFD
RECURSIVE from_utf16_lossy(_)
from_utf16_lossy(n) ==
    IF n = <<>> THEN <<>>
    ELSE IF IsHighSurrogate(n[1]) /\ Len(n) >= 2 /\ IsLowSurrogate(n[2])
         THEN <<65536 + (n[1] - 55296) * 1024 + (n[2] - 56320)>>
              \o from_utf16_lossy(Drop(n, 2))
    ELSE IF IsHighSurrogate(n[1]) \/ IsLowSurrogate(n[1])
         THEN <<REPLACEMENT_CHARACTER>> \o from_utf16_lossy(Drop(n, 1))
    ELSE <<n[1]>> \o from_utf16_lossy(Drop(n, 1))

pfs_info_section(input) ==
    IF Len(input) < INFO_FIXED_LEN THEN Fail
    ELSE LET l == le_u16(input, 32)
             after == INFO_FIXED_LEN + 2 * l
         IN  IF /\ Len(input) >= after + 2
                /\ SubSeq(input, after + 1, after + 2) = INFO_TERM
             THEN Ok(Drop(input, after + 2),
                     [header_version |-> le_u32(input, 0),
                      guid |-> guid(input, 4),
                      version |-> [j \in 1..4 |-> le_u16(input, 20 + 2 * (j - 1))],
                      version_type |-> SubSeq(input, 29, 32),
                      name |-> from_utf16_lossy(
                          [k \in 1..l |-> le_u16(input, INFO_FIXED_LEN + 2 * (k - 1))])])
             ELSE Fail

\* many0!(complete!(pfs_info_section)): the first record that does not decode
\* ends the list; the result is Ok whatever the input
RECURSIVE many0_info(_, _)
many0_info(input, acc) ==
    Let(pfs_info_section(input), LAMBDA r :
        IF r.ok THEN many0_info(r.rest, Append(acc, r.val)) ELSE Ok(input, acc))

pfs_info(input) == many0_info(input, <<>>)
----------------------------------------------------------------------------
(* main.rs *)

\* flate2's ZlibDecoder, the external inflater: modelled on streams of one
\* stored deflate block, 78 01 | 01 LEN NLEN | bytes | 4 bytes of Adler-32 (the
\* checksum's value is not recomputed); any other stream is an error
ZLIB_FRAME_LEN == 7
ADLER_LEN == 4
Inflate(z) ==
    IF Len(z) < ZLIB_FRAME_LEN THEN Fail
    ELSE LET len == le_u16(z, 3) IN
         IF /\ Take(z, 3) = <<120, 1, 1>>
            /\ le_u16(z, 5) = 65535 - len
            /\ Len(z) >= ZLIB_FRAME_LEN + len + ADLER_LEN
         THEN Ok(<<>>, SubSeq(z, ZLIB_FRAME_LEN + 1, ZLIB_FRAME_LEN + len))
         ELSE Fail

HexDigit(d) == IF d < 10 THEN 48 + d ELSE 55 + d       \* '0'..'9', 'A'..'F'

\* format!("{:X}", n)
RECURSIVE FormatHex(_)
FormatHex(n) == IF n < 16 THEN <<HexDigit(n)>>
                ELSE Append(FormatHex(n \div 16), HexDigit(n % 16))

\* format!("{}", n)
RECURSIVE FormatDec(_)
FormatDec(n) == IF n < 10 THEN <<48 + n>>
                ELSE Append(FormatDec(n \div 10), 48 + (n % 10))

\* str::replace(name, " ", "_")
ReplaceSpaces(name) == [k \in 1..Len(name) |-> IF name[k] = SPACE[1] THEN UNDERSCORE[1] ELSE name[k]]

\* a version loop that breaks on an unknown tag byte without version.clear()
UnknownTag_NoClear(acc) == acc

\* the arm of an unknown tag byte: version.clear(); break
UnknownTag(acc) == <<>>

\* the version loop of pfs_extract from position j on, acc being what is pushed so far
RECURSIVE VersionScan(_, _, _)
VersionScan(section, j, acc) ==
    IF j > Len(section.version_type) THEN acc
    ELSE LET t == section.version_type[j] IN
         IF t = 65 THEN VersionScan(section, j + 1, acc \o FormatHex(section.version[j]) \o DOT)
         ELSE IF t = 78 THEN VersionScan(section, j + 1, acc \o FormatDec(section.version[j]) \o DOT)
         ELSE IF t = 32 \/ t = 0 THEN acc
         ELSE UnknownTag(acc)

VersionString(section) ==
    LET version == VersionScan(section, 1, <<>>) IN
    IF Len(version) > 0 THEN version ELSE <<48>> \o DOT

\* the "Set section names" loop: how many of the decoded records info are
\* assigned to the others non-information sections (the final value of i)
AssignedCount(info, others) == IF Len(info) < others THEN Len(info) ELSE others

\* the information section renamed only when it held a record
SetNames_OnlyWithRecords(sections, info, i) ==
    [k \in 1..Len(sections) |->
        IF k = Len(sections) /\ Len(info) > 0
        THEN [sections[k] EXCEPT !.name = STR_SECTION_INFO]
        ELSE IF k <= i THEN [sections[k] EXCEPT !.name = info[k].name]
        ELSE sections[k]]

\* the sections once the information section is renamed and the first i
\* sections carry the names of the first i records
SetNames(sections, info, i) ==
    [k \in 1..Len(sections) |->
        IF k = Len(sections) THEN [sections[k] EXCEPT !.name = STR_SECTION_INFO]
        ELSE IF k <= i THEN [sections[k] EXCEPT !.name = info[k].name]
        ELSE sections[k]]

\* i == other_sections.len() - 1, for other_sections.len() > 0
IsModelProperties(i, others) == i = others - 1

\* the information-section block of pfs_extract on file.sections.  trap: the
\* build traps integer overflow (debug profile) instead of wrapping (release).
\* Result: [panic, sections]
ResolveNames(sections, trap) ==
    IF Len(sections) = 0
    THEN [panic |-> "split_last_mut().unwrap() on None", sections |-> sections]
    ELSE
        LET n == Len(sections)
            info_section == sections[n]
            others == n - 1
        IN  IF info_section.data_size = 0 THEN [panic |-> "", sections |-> sections]
            ELSE IF ~info_section.data.some
            THEN [panic |-> "info_section.data.unwrap() on None", sections |-> sections]
            ELSE
                Let(pfs_info(info_section.data.v), LAMBDA parsed :
                    LET i == AssignedCount(parsed.val, others)
                        named == SetNames(sections, parsed.val, i)
                    IN  IF ~parsed.ok THEN [panic |-> "", sections |-> sections]
                        ELSE IF others = 0
                        \* 0usize - 1: a panic with overflow checks, usize::MAX
                        \* (never equal to i) without
                        THEN IF trap
                             THEN [panic |-> "attempt to subtract with overflow",
                                   sections |-> named]
                             ELSE [panic |-> "", sections |-> named]
                        ELSE IF IsModelProperties(i, others)
                        THEN [panic |-> "",
                              sections |-> [named EXCEPT ![i + 1].name = STR_MODEL_PROPERTIES]]
                        ELSE [panic |-> "", sections |-> named])

\* chunks.sort(): stable, by Ord for PfsChunk
RECURSIVE InsertChunk(_, _)
InsertChunk(sorted, c) ==
    IF sorted = <<>> THEN <<c>>
    ELSE LET m == Len(sorted) IN
         IF ChunkLe(sorted[m], c) THEN Append(sorted, c)
         ELSE Append(InsertChunk(Take(sorted, m - 1), c), sorted[m])

RECURSIVE SortChunks(_)
SortChunks(chunks) ==
    IF chunks = <<>> THEN <<>>
    ELSE Let(SortChunks(Take(chunks, Len(chunks) - 1)), LAMBDA sorted :
             InsertChunk(sorted, chunks[Len(chunks)]))

\* payload.extend_from_slice(x.data) over the chunks
RECURSIVE ConcatChunks(_)
ConcatChunks(chunks) ==
    IF chunks = <<>> THEN <<>> ELSE chunks[1].data \o ConcatChunks(Drop(chunks, 1))

\* the "Obtain chunks" loop over sub.sections from position k on; section is the
\* OUTER section, whose data_size the loop tests.  Result: [panic, chunks]
RECURSIVE ObtainChunks(_, _, _, _)
ObtainChunks(section, subs, k, chunks) ==
    IF k > Len(subs) THEN [panic |-> "", chunks |-> chunks]
    ELSE IF section.data_size = 0 THEN ObtainChunks(section, subs, k + 1, chunks)
    ELSE IF ~subs[k].data.some
    THEN [panic |-> "chunk.data.unwrap() on None", chunks |-> chunks]
    ELSE Let(pfs_chunk(subs[k].data.v), LAMBDA ch :
             IF ch.ok THEN ObtainChunks(section, subs, k + 1, Append(chunks, ch.val))
             ELSE [panic |-> "", chunks |-> <<>>])

\* events of one iteration of the section loop, in program order
EvWrite(name, data) == [ev |-> "write", ok |-> TRUE, name |-> name, data |-> data]
EvTry(what, ok) == [ev |-> what, ok |-> ok, name |-> <<>>, data |-> <<>>]
EvCall(prefix, data) == [ev |-> "call", ok |-> TRUE, name |-> prefix, data |-> data]

\* a section name with its spaces left in
SectionName_KeepSpaces(section, i) ==
    IF section.name = <<>> THEN STR_SECTION_ \o FormatDec(i)
    ELSE FormatDec(i) \o UNDERSCORE \o section.name

SectionName(section, i) ==
    IF section.name = <<>> THEN STR_SECTION_ \o FormatDec(i)
    ELSE FormatDec(i) \o UNDERSCORE \o ReplaceSpaces(section.name)

\* format!("{}{}_{}<suffix>", prefix, section_name, version)
FileName(prefix, section_name, version, suffix) ==
    prefix \o section_name \o UNDERSCORE \o version \o suffix

\* the classification of section_data: what follows the four raw writes
\* the zlib branch: comp is the decoded compressed section
Decompress(comp, prefix, section_name, version) ==
    Let(Inflate(comp.data), LAMBDA z :
        IF ~z.ok
        THEN [panic |-> "Zlib decompression failed",
              events |-> <<EvTry("try_compressed", TRUE)>>]
        ELSE [panic |-> "",
              events |-> <<EvTry("try_compressed", TRUE),
                           EvWrite(FileName(prefix, section_name, version, STR_DECOMPRESSED),
                                   z.val),
                           EvCall(FileName(prefix, section_name, version, UNDERSCORE),
                                  z.val)>>])

\* the subsection branch: sub is the decoded nested container
Reassemble(section, sub, prefix, section_name, version) ==
    Let(ObtainChunks(section, sub.sections, 1, <<>>), LAMBDA got :
        LET tried == <<EvTry("try_compressed", FALSE), EvTry("try_subsection", TRUE)>>
        IN  IF got.panic # "" THEN [panic |-> got.panic, events |-> tried]
            ELSE IF Len(got.chunks) > 0
            THEN [panic |-> "",
                  events |-> Append(tried,
                      EvWrite(FileName(prefix, section_name, version, STR_DATA_PAYLOAD),
                              ConcatChunks(SortChunks(got.chunks))))]
            ELSE [panic |-> "", events |-> tried])

Classify(section, section_data, prefix, section_name, version) ==
    Let(pfs_compressed_section(section_data), LAMBDA comp :
        IF comp.ok THEN Decompress(comp.val, prefix, section_name, version)
        ELSE Let(pfs_file(section_data), LAMBDA sub :
                 IF ~sub.ok
                 THEN [panic |-> "",
                       events |-> <<EvTry("try_compressed", FALSE),
                                    EvTry("try_subsection", FALSE)>>]
                 ELSE Reassemble(section, sub.val, prefix, section_name, version)))

\* the classification made before the raw blobs are written
InOrder_ClassifyFirst(raw, classified) == classified \o raw

\* the raw writes come first, the classification after them
InOrder(raw, classified) == raw \o classified

\* one iteration of "for section in file.sections", i already incremented.
\* Result: [panic, events]
ProcessSection(section, i, prefix) ==
    LET version == VersionString(section) IN
    IF section.data_size = 0 THEN [panic |-> "", events |-> <<>>]
    ELSE IF ~section.data.some
    THEN [panic |-> "section.data.unwrap() on None", events |-> <<>>]
    ELSE
        LET section_data == section.data.v
            section_name == SectionName(section, i)
            raw == <<EvWrite(FileName(prefix, section_name, version, STR_DATA), section_data)>>
                \o (IF section.data_sig_size > 0
                    THEN <<EvWrite(FileName(prefix, section_name, version, STR_DATA_SIG),
                                   section.data_sig.v)>>
                    ELSE <<>>)
                \o (IF section.meta_size > 0
                    THEN <<EvWrite(FileName(prefix, section_name, version, STR_META),
                                   section.meta.v)>>
                    ELSE <<>>)
                \o (IF section.meta_sig_size > 0
                    THEN <<EvWrite(FileName(prefix, section_name, version, STR_META_SIG),
                                   section.meta_sig.v)>>
                    ELSE <<>>)
        IN  Let(Classify(section, section_data, prefix, section_name, version), LAMBDA c :
                [panic |-> c.panic, events |-> InOrder(raw, c.events)])

\* write_file opens with create_new: a second file of the same name is a panic.
\* Runs the events against the files written so far; what follows a panic is
\* not executed.  Result: [panic, events, files]
RECURSIVE RunEvents(_, _, _, _)
RunEvents(events, k, done, written) ==
    IF k > Len(events) THEN [panic |-> "", events |-> done, files |-> written]
    ELSE LET e == events[k] IN
         IF e.ev = "write" /\ \E f \in 1..Len(written) : written[f].name = e.name
         THEN [panic |-> "Can't create file", events |-> done, files |-> written]
         ELSE Let(IF e.ev = "write"
                  THEN Append(written, [name |-> e.name, data |-> e.data])
                  ELSE written,
                  LAMBDA w : RunEvents(events, k + 1, Append(done, e), w))
----------------------------------------------------------------------------
(* Input buffers: the byte layouts of parser.rs written out, to build the      *)
(* buffers the extractor is run on                                             *)

EncU16(n) == <<n % 256, n \div 256>>
EncU32(n) == <<n % 256, (n \div 256) % 256, (n \div 65536) % 256, n \div 16777216>>
EncU64(r) == EncU32(r[1]) \o EncU32(r[2])

EncHeader(h) == HDR_MAGIC \o EncU32(h.header_version) \o EncU32(h.data_size)
EncFooter(f) == EncU32(f.data_size) \o EncU32(f.checksum) \o FTR_MAGIC
EncGuid(g) == EncU32(g.data1) \o EncU16(g.data2) \o EncU16(g.data3) \o g.data4

\* f: the fields of a section, its four blobs as byte sequences (<<>>: no blob)
EncSection(f) ==
    EncGuid(f.guid) \o EncU32(f.header_version) \o f.version_type
    \o EncU16(f.version[1]) \o EncU16(f.version[2])
    \o EncU16(f.version[3]) \o EncU16(f.version[4])
    \o EncU64(f.reserved)
    \o EncU32(Len(f.data)) \o EncU32(Len(f.data_sig))
    \o EncU32(Len(f.meta)) \o EncU32(Len(f.meta_sig))
    \o f.unknown
    \o f.data \o f.data_sig \o f.meta \o f.meta_sig

RECURSIVE EncSections(_)
EncSections(fs) == IF fs = <<>> THEN <<>> ELSE EncSection(fs[1]) \o EncSections(Drop(fs, 1))

EncFile(h, fs, f) == EncHeader(h) \o EncSections(fs) \o EncFooter(f)

RECURSIVE EncUnits(_)
EncUnits(n) == IF n = <<>> THEN <<>> ELSE EncU16(n[1]) \o EncUnits(Drop(n, 1))

ZeroGuid == [data1 |-> 0, data2 |-> 0, data3 |-> 0, data4 |-> Zeros(8)]

\* one information-section record naming a section with the UTF-16 units n
EncInfoRecord(n) ==
    EncU32(1) \o EncGuid(ZeroGuid) \o Zeros(8) \o Zeros(4)
    \o EncU16(Len(n)) \o EncUnits(n) \o INFO_TERM

EncChunk(order, payload) ==
    Zeros(CHUNK_ORDER_OFFSET) \o EncU16(order)
    \o Zeros(CHUNK_HEADER_LEN - CHUNK_ORDER_OFFSET - 2) \o payload

\* a zlib stream of one stored block holding plain
Deflate(plain) ==
    <<120, 1, 1>> \o EncU16(Len(plain)) \o EncU16(65535 - Len(plain))
    \o plain \o Zeros(ADLER_LEN)

\* the wrapper of a compressed section around the zlib stream z
EncCompressed(z) ==
    EncU32(Len(z)) \o ZLIB_MAGIC \o <<0>> \o z \o Zeros(ZLIB_TRAILER_LEN)

Header0 == [header_version |-> 1, data_size |-> 0]
Footer0 == [checksum |-> 0, data_size |-> 0]

Sec(vt, v, data, sig, meta, msig) ==
    [guid |-> ZeroGuid, header_version |-> 1, version_type |-> vt, version |-> v,
     reserved |-> <<0, 0>>, unknown |-> Zeros(16),
     data |-> data, data_sig |-> sig, meta |-> meta, meta_sig |-> msig]

File(fs) == EncFile(Header0, fs, Footer0)

\* sections that are leaves
SecZero == Sec(<<0, 0, 0, 0>>, <<0, 0, 0, 0>>, <<>>, <<>>, <<>>, <<>>)
SecBare == Sec(<<0, 0, 0, 0>>, <<7, 0, 0, 0>>, <<1>>, <<>>, <<>>, <<>>)
SecFull == Sec(<<65, 78, 32, 0>>, <<26, 12, 3, 4>>, <<1, 2>>, <<3>>, <<4>>, <<5>>)
SecOdd == Sec(<<78, 32, 66, 65>>, <<300, 1, 2, 3>>, <<6>>, <<>>, <<7>>, <<>>)
LightSections == {SecZero, SecBare, SecFull, SecOdd}

\* the UTF-16 units of the k-th generated name: "a b", "c", "", then an
\* unpaired surrogate
NameUnits(k) ==
    IF k = 1 THEN <<97, 32, 98>>
    ELSE IF k = 2 THEN <<99>>
    ELSE IF k = 3 THEN <<>>
    ELSE <<55357>>

RECURSIVE EncInfo(_, _)
EncInfo(k, n) == IF k > n THEN <<>> ELSE EncInfoRecord(NameUnits(k)) \o EncInfo(k + 1, n)

\* an information section holding n records (n = 0: no data at all)
SecInfo(n) == Sec(<<65, 0, 0, 0>>, <<1, 0, 0, 0>>, EncInfo(1, n), <<>>, <<>>, <<>>)

SecOf(data) == Sec(<<78, 78, 0, 0>>, <<2, 10, 0, 0>>, data, <<>>, <<9>>, <<>>)

\* a chunk section: kind 1..3 is a chunk of that order number whose payload
\* names its position pos, 4 a chunk of order 1 with no payload, 5 data
\* shorter than a chunk header, 6 a section with no data
ChunkKinds == 1..6
ChunkSection(kind, pos) ==
    IF kind <= 3 THEN SecOf(EncChunk(kind, <<64 + pos, kind>>))
    ELSE IF kind = 4 THEN SecOf(EncChunk(1, <<>>))
    ELSE IF kind = 5 THEN SecOf(Zeros(CHUNK_HEADER_LEN - 1))
    ELSE SecZero

\* a section whose data is a nested container of the chunk sections kinds
SecSub(kinds) == SecOf(File([p \in 1..Len(kinds) |-> ChunkSection(kinds[p], p)]))

\* a section whose data is a compressed section around the buffer plain
SecComp(plain) == SecOf(EncCompressed(Deflate(plain)))

HeavySections ==
    { SecComp(File(<<>>)),
      SecComp(File(<<SecBare>>)),
      SecComp(File(<<SecFull, SecInfo(1)>>)),
      SecComp(File(<<SecComp(File(<<SecBare, SecInfo(1)>>)), SecZero>>)),
      SecComp(<<9>>),
      SecOf(EncCompressed(<<1, 2, 3>>)),
      SecSub(<<>>),
      SecSub(<<2, 1>>),
      SecSub(<<1, 5>>),
      SecSub(<<1, 6>>) }

\* buffers that are no container, or a container and more
OddBuffers ==
    { <<>>, <<9>>, EncHeader(Header0), EncHeader(Header0) \o EncSection(SecBare),
      File(<<SecBare>>) \o <<1, 2, 3>> }
----------------------------------------------------------------------------
(* The extractor as a state machine: main calls pfs_extract(&data, ""), and    *)
(* every compressed section calls it again on the decompressed buffer          *)

NoCall == [active |-> FALSE, data |-> <<>>, prefix |-> <<>>]

Start(data) ==
    /\ call = [active |-> TRUE, data |-> data, prefix |-> <<>>]
    /\ stack = <<>>
    /\ files = <<>>
    /\ status = "running"
    /\ last = [kind |-> "init"]
    /\ checks \in BOOLEAN
    /\ probe = <<>>

BeforeHeavy == {SecZero, SecFull}
AfterHeavy == {SecBare, SecInfo(1)}

Init ==
    \/ \E n \in 0..MaxOthers : \E others \in [1..n -> LightSections] :
          \/ \E k \in 0..MaxNames : Start(File(others \o <<SecInfo(k)>>))
          \/ Start(File(others))
    \/ \E a \in 0..MaxOthers : \E b \in 0..(MaxOthers - a) :
          \E before \in [1..a -> BeforeHeavy] : \E after \in [1..b -> AfterHeavy] :
             \E h \in HeavySections : Start(File(before \o <<h>> \o after))
    \/ \E data \in OddBuffers : Start(data)

\* the head of pfs_extract: decode the container, resolve the names
Extract ==
    /\ status = "running"
    /\ call.active
    /\ \E r \in {pfs_file(call.data)} :
       IF ~r.ok
       THEN /\ stack' = stack
            /\ status' = IF stack = <<>> THEN "done" ELSE "running"
            /\ last' = [kind |-> "extract", ok |-> FALSE, data |-> call.data,
                        depth |-> Len(stack) + 1]
       ELSE \E res \in {ResolveNames(r.val.sections, checks)} :
               /\ last' = [kind |-> "extract", ok |-> TRUE, data |-> call.data,
                           depth |-> Len(stack) + 1, file |-> r.val, rest |-> r.rest,
                           panic |-> res.panic, sections |-> res.sections]
               /\ IF res.panic # ""
                  THEN status' = "panic" /\ stack' = stack
                  ELSE /\ status' = "running"
                       /\ stack' = Append(stack, [sections |-> res.sections, i |-> 0,
                                                  prefix |-> call.prefix])
    /\ call' = NoCall
    /\ UNCHANGED <<files, checks, probe>>

\* one iteration of the section loop of the innermost call
Section ==
    /\ status = "running"
    /\ ~call.active
    /\ stack # <<>>
    /\ LET top == stack[Len(stack)]
           i == top.i + 1
       IN  /\ top.i < Len(top.sections)
           /\ \E p \in {ProcessSection(top.sections[i], i, top.prefix)} :
              \E run \in {RunEvents(p.events, 1, <<>>, files)} :
              LET panic == IF run.panic # "" THEN run.panic ELSE p.panic
                  n == Len(run.events)
              IN  /\ files' = run.files
                  /\ status' = IF panic # "" THEN "panic" ELSE "running"
                  /\ stack' = [stack EXCEPT ![Len(stack)].i = i]
                  /\ call' = IF panic = "" /\ n > 0 /\ run.events[n].ev = "call"
                             THEN [active |-> TRUE, data |-> run.events[n].data,
                                   prefix |-> run.events[n].name]
                             ELSE NoCall
                  /\ last' = [kind |-> "section", section |-> top.sections[i],
                              index |-> i, prefix |-> top.prefix, depth |-> Len(stack),
                              events |-> run.events, panic |-> panic, before |-> files]
    /\ UNCHANGED <<checks, probe>>

\* the section loop of the innermost call is over: pfs_extract returns
Return ==
    /\ status = "running"
    /\ ~call.active
    /\ stack # <<>>
    /\ stack[Len(stack)].i = Len(stack[Len(stack)].sections)
    /\ stack' = Take(stack, Len(stack) - 1)
    /\ status' = IF Len(stack) = 1 THEN "done" ELSE "running"
    /\ last' = [kind |-> "return", depth |-> Len(stack)]
    /\ UNCHANGED <<call, files, checks, probe>>

Next == Extract \/ Section \/ Return

Spec == Init /\ [][Next]_vars

\* the extractor on containers of one subsection of up to MaxChunks chunk
\* sections, followed or not by an information section
InitChunks ==
    \E n \in 0..MaxChunks : \E kinds \in [1..n -> ChunkKinds] : \E k \in 0..1 :
        Start(File(<<SecSub(kinds)>> \o (IF k = 1 THEN <<SecInfo(1)>> ELSE <<>>)))

SpecChunks == InitChunks /\ [][Next]_vars
----------------------------------------------------------------------------
(* pfs_file on its own, on header + N sections + footer *)

Idle ==
    /\ call = NoCall
    /\ stack = <<>>
    /\ files = <<>>
    /\ status = "done"
    /\ last = [kind |-> "init"]
    /\ checks = FALSE

\* the blobs of a round-trip section: pattern 1..6
RtBlobs(pat) ==
    IF pat = 1 THEN <<<<>>, <<>>, <<>>, <<>>>>
    ELSE IF pat = 2 THEN <<<<5, 6>>, <<>>, <<>>, <<>>>>
    ELSE IF pat = 3 THEN <<<<5>>, <<7, 8>>, <<>>, <<>>>>
    ELSE IF pat = 4 THEN <<<<5, 6, 7>>, <<8>>, <<9, 10>>, <<11>>>>
    ELSE IF pat = 5 THEN <<<<>>, <<8>>, <<>>, <<11, 12>>>>
    ELSE <<<<>>, <<>>, <<9>>, <<>>>>
RtPatterns == 1..6

\* data4 of a round-trip section's guid: any eight bytes, those of the footer
\* magic among them
RtData4 == {<<1, 2, 3, 4, 5, 6, 7, 8>>, FTR_MAGIC}

RtSection(pat, d4) ==
    [guid |-> [data1 |-> 16909060 + pat, data2 |-> 1286, data3 |-> 1800 + pat, data4 |-> d4],
     header_version |-> 2 + pat,
     version_type |-> <<65, 78, 32, pat>>,
     version |-> <<1, 258, pat, 65535>>,
     reserved |-> <<16909060, 84281096 + pat>>,
     unknown |-> [k \in 1..16 |-> 16 * pat + k],
     data |-> RtBlobs(pat)[1], data_sig |-> RtBlobs(pat)[2],
     meta |-> RtBlobs(pat)[3], meta_sig |-> RtBlobs(pat)[4]]

RtHeaders == {[header_version |-> 1, data_size |-> 0],
              [header_version |-> 513, data_size |-> 70000]}
RtFooters == {[checksum |-> 0, data_size |-> 0],
              [checksum |-> 305419896, data_size |-> 70000]}

InitDecode ==
    /\ Idle
    /\ \E n \in 0..MaxN : \E pats \in [1..n -> RtPatterns] : \E d4s \in [1..n -> RtData4] :
       \E h \in RtHeaders : \E f \in RtFooters :
          probe = [kind |-> "decode", header |-> h, footer |-> f,
                   fields |-> [k \in 1..n |-> RtSection(pats[k], d4s[k])],
                   done |-> FALSE, result |-> Fail]

Decode ==
    /\ probe.kind = "decode"
    /\ ~probe.done
    /\ probe' = [probe EXCEPT !.done = TRUE,
                              !.result = pfs_file(EncFile(probe.header, probe.fields,
                                                          probe.footer))]
    /\ UNCHANGED <<call, stack, files, status, last, checks>>

NextDecode == Decode

SpecDecode == InitDecode /\ [][NextDecode]_vars

----------------------------------------------------------------------------
(* the version loop on its own, on every array of tag bytes *)

TagBytes == {65, 78, 32, 0, 66, 255}
VersionNumbers == {<<26, 12, 300, 65535>>, <<0, 1, 2, 3>>}

InitVersion ==
    /\ Idle
    /\ \E vt \in [1..4 -> TagBytes] : \E v \in VersionNumbers :
          probe = [kind |-> "version", version_type |-> vt, version |-> v,
                   done |-> FALSE, out |-> <<>>]

RenderVersion ==
    /\ probe.kind = "version"
    /\ ~probe.done
    /\ probe' = [probe EXCEPT !.done = TRUE,
                              !.out = VersionString([version_type |-> probe.version_type,
                                                     version |-> probe.version])]
    /\ UNCHANGED <<call, stack, files, status, last, checks>>

NextVersion == RenderVersion

SpecVersion == InitVersion /\ [][NextVersion]_vars
----------------------------------------------------------------------------
(* Claims *)

STR_FALLBACK_VERSION == <<48, 46>>                               \* "0."
KnownTags == {65, 78, 32, 0}

\* the scan reaches an unknown tag byte: some position holds one and only
\* 0x41 / 0x4E bytes come before it
ScanReachesUnknown(vt) ==
    \E j \in 1..4 : vt[j] \notin KnownTags /\ \A k \in 1..(j - 1) : vt[k] \in {65, 78}

\* C6 as stated: a version_type array with a byte outside {0x41, 0x4E, 0x20,
\* 0x00} at any position renders as the fallback "0."
C6_AnyUnknownGivesFallback ==
    (probe.kind = "version" /\ probe.done
        /\ \E j \in 1..4 : probe.version_type[j] \notin KnownTags)
    => probe.out = STR_FALLBACK_VERSION

\* C6 amended: a version_type array whose scan reaches a byte outside {0x41,
\* 0x4E, 0x20, 0x00} (no 0x20 / 0x00 before it) renders as the fallback "0.",
\* whatever the other tag bytes and the version numbers are
C6_ReachedUnknownGivesFallback ==
    (probe.kind = "version" /\ probe.done /\ ScanReachesUnknown(probe.version_type))
    => probe.out = STR_FALLBACK_VERSION

\* an unknown tag after two rendered numbers has been rendered as "0."
C6_Witness ==
    /\ probe.kind = "version" /\ probe.done
    /\ probe.version_type = <<65, 78, 66, 65>>
    /\ probe.version = <<26, 12, 300, 65535>>
    /\ probe.out = STR_FALLBACK_VERSION

\* a decoded blob is the encoded one: absent exactly when its size is zero
BlobMatches(opt, size, blob) ==
    /\ size = Len(blob)
    /\ opt.some = (Len(blob) # 0)
    /\ opt.some => opt.v = blob

SectionMatches(sec, f) ==
    /\ sec.name = <<>>
    /\ sec.guid = f.guid
    /\ sec.header_version = f.header_version
    /\ sec.version_type = f.version_type
    /\ sec.version = f.version
    /\ sec.reserved = f.reserved
    /\ sec.unknown = f.unknown
    /\ BlobMatches(sec.data, sec.data_size, f.data)
    /\ BlobMatches(sec.data_sig, sec.data_sig_size, f.data_sig)
    /\ BlobMatches(sec.meta, sec.meta_size, f.meta)
    /\ BlobMatches(sec.meta_sig, sec.meta_sig_size, f.meta_sig)

RoundTrips ==
    /\ probe.result.ok
    /\ probe.result.rest = <<>>
    /\ probe.result.val.header = probe.header
    /\ probe.result.val.footer = probe.footer
    /\ Len(probe.result.val.sections) = Len(probe.fields)
    /\ \A k \in 1..Len(probe.fields) :
          SectionMatches(probe.result.val.sections[k], probe.fields[k])

\* C7 as stated: header + N encoded sections + footer decodes into exactly
\* the N sections, the header and the footer encoded, nothing left over, for
\* every choice of field values
C7_RoundTripAnyFields == (probe.kind = "decode" /\ probe.done) => RoundTrips

\* C7 amended: the same, for every choice of field values in which no
\* section's guid.data4 is the eight bytes "PFS.FTR." of the footer magic
C7_RoundTripNoFooterMagicInGuid ==
    (probe.kind = "decode" /\ probe.done
        /\ \A k \in 1..Len(probe.fields) : probe.fields[k].guid.data4 # FTR_MAGIC)
    => RoundTrips

\* two sections, one with its four blobs and one with none, have round-tripped
C7_Witness ==
    /\ probe.kind = "decode" /\ probe.done
    /\ Len(probe.fields) = 2
    /\ Len(probe.fields[1].meta_sig) > 0 /\ Len(probe.fields[1].data) > 0
    /\ Len(probe.fields[2].data) = 0
    /\ \A k \in 1..2 : probe.fields[k].guid.data4 # FTR_MAGIC
    /\ RoundTrips
EndsWith(name, suffix) ==
    Len(name) >= Len(suffix)
    /\ SubSeq(name, Len(name) - Len(suffix) + 1, Len(name)) = suffix

IsSectionStep == last.kind = "section"
IsExtractStep == last.kind = "extract" /\ last.ok

\* the positions of the events of the last section step that write a file
\* named ... + suffix
WritesOf(suffix) ==
    {k \in 1..Len(last.events) :
        last.events[k].ev = "write" /\ EndsWith(last.events[k].name, DOT \o suffix)}

\* the section of the last step has data that is no compressed section and
\* decodes as a nested container
IsSubsection ==
    /\ IsSectionStep
    /\ last.section.data_size # 0
    /\ ~pfs_compressed_section(last.section.data.v).ok
    /\ pfs_file(last.section.data.v).ok

NestedSections == pfs_file(last.section.data.v).val.sections

DecodesAsChunk(sec) == sec.data.some /\ pfs_chunk(sec.data.v).ok

\* the loop of the innermost call went past the section of the last step
WentOn ==
    /\ last.panic = ""
    /\ status = "running"
    /\ stack # <<>>
    /\ stack[Len(stack)].i = last.index

\* C1 as stated: when one nested section of a subsection does not decode as a
\* chunk (data shorter than the chunk header, or no data at all), no
\* data.payload is written, nothing fails and the loop goes on to the next
\* section
C1_BadChunkIsNotFatal ==
    (IsSubsection /\ \E k \in 1..Len(NestedSections) : ~DecodesAsChunk(NestedSections[k]))
    => (WritesOf(STR_DATA_PAYLOAD) = {} /\ WentOn)

\* the decoded container of the last extract step has an information section
\* with data of which no record decodes
InfoDecodesNothing ==
    /\ IsExtractStep
    /\ Len(last.file.sections) >= 1
    /\ last.file.sections[Len(last.file.sections)].data_size # 0
    /\ pfs_info(last.file.sections[Len(last.file.sections)].data.v).val = <<>>

\* C2 as stated: when no record decodes from the information section's data,
\* every non-information section has an empty name after the resolver, and
\* the extraction continues
C2_UndecodableInfoLeavesNamesEmpty ==
    (InfoDecodesNothing /\ last.panic = "")
    => /\ status = "running"
       /\ \A k \in 1..(Len(last.sections) - 1) : last.sections[k].name = <<>>

\* the resolver has run to its end on a container with a last section
Resolved == IsExtractStep /\ last.panic = "" /\ Len(last.sections) >= 1

InfoSection == last.sections[Len(last.sections)]

\* C3 as stated: after the resolver the last section is named "Section Info",
\* whatever its data
C3_InfoAlwaysRenamed == Resolved => InfoSection.name = STR_SECTION_INFO

\* C3 amended: after the resolver the last section is named "Section Info"
\* when its data size is not zero (also when no record decodes from its
\* data), and keeps its empty name when its data size is zero
C3_InfoRenamedWhenItHasData ==
    Resolved => /\ InfoSection.data_size # 0 => InfoSection.name = STR_SECTION_INFO
                /\ InfoSection.data_size = 0 => InfoSection.name = <<>>

\* an information section of which no record decodes, after two other
\* sections, has been renamed
C3_Witness ==
    /\ Resolved
    /\ InfoDecodesNothing
    /\ Len(last.sections) = 3
    /\ InfoSection.name = STR_SECTION_INFO

\* C4 as stated: on a container of zero sections the pipeline completes
\* without failure and writes nothing
C4_EmptyContainerCompletes ==
    (IsExtractStep /\ Len(last.file.sections) = 0)
    => (last.panic = "" /\ status # "panic")
\* i + "_" + name with every space an underscore
Underscored(name) == [k \in 1..Len(name) |-> IF name[k] = 32 THEN 95 ELSE name[k]]

Suffixes == {STR_DATA, STR_DATA_SIG, STR_META, STR_META_SIG, STR_DECOMPRESSED,
             STR_DATA_PAYLOAD}

\* the label of C5 as stated: index + "_" + name, the name being "section_" +
\* index when unresolved
StatedLabel(section, i) ==
    FormatDec(i) \o UNDERSCORE
    \o (IF section.name = <<>> THEN STR_SECTION_ \o FormatDec(i)
        ELSE Underscored(section.name))

\* the label the code gives: index + "_" + name, or "section_" + index alone
\* when the name is unresolved
CodeLabel(section, i) ==
    IF section.name = <<>> THEN STR_SECTION_ \o FormatDec(i)
    ELSE FormatDec(i) \o UNDERSCORE \o Underscored(section.name)

\* every file written by the last section step is named prefix + label + "_"
\* + version + one of the six suffixes, and the prefix of the call it makes is
\* prefix + label + "_" + version + "_"
NamedBy(label) ==
    \A k \in 1..Len(last.events) :
        LET e == last.events[k]
            stem == last.prefix \o label \o UNDERSCORE \o VersionString(last.section)
        IN  /\ e.ev = "write" => \E suffix \in Suffixes : e.name = stem \o suffix
            /\ e.ev = "call" => e.name = stem \o UNDERSCORE

\* C5 as stated: the files of a section are named prefix + index + "_" + name
\* + "_" + version + suffix, the name being "section_{index}" when unresolved
C5_NamesAsStated ==
    (IsSectionStep /\ last.section.data_size # 0)
    => NamedBy(StatedLabel(last.section, last.index))

\* C5 amended: the files of a section with a resolved name are named prefix +
\* index + "_" + name + "_" + version + suffix (spaces of the name as
\* underscores); those of a section with an unresolved name are named prefix +
\* "section_" + index + "_" + version + suffix, without a leading index; the
\* prefix of a recursive call is the caller's extended by that one segment
\* and "_"
C5_NamesAsWritten ==
    (IsSectionStep /\ last.section.data_size # 0)
    => NamedBy(CodeLabel(last.section, last.index))

\* a section named "a b" of a decompressed container has written its files
C5_Witness ==
    /\ IsSectionStep
    /\ last.depth = 2
    /\ last.prefix # <<>>
    /\ last.section.name = <<97, 32, 98>>
    /\ Cardinality(WritesOf(STR_META_SIG)) = 1
    /\ NamedBy(CodeLabel(last.section, last.index))

\* the chunks of the nested sections, in container order
NestedChunks == [k \in 1..Len(NestedSections) |-> pfs_chunk(NestedSections[k].data.v).val]

\* the payloads of the chunks of order number o, in container order
RECURSIVE PayloadsOfOrder(_, _, _)
PayloadsOfOrder(chunks, o, k) ==
    IF k > Len(chunks) THEN <<>>
    ELSE (IF chunks[k].order_number = o THEN chunks[k].data ELSE <<>>)
         \o PayloadsOfOrder(chunks, o, k + 1)

\* the payloads of the chunks by ascending order number among orders
RECURSIVE PayloadsAscending(_, _)
PayloadsAscending(chunks, orders) ==
    IF orders = {} THEN <<>>
    ELSE LET o == CHOOSE x \in orders : \A y \in orders : x <= y
         IN  PayloadsOfOrder(chunks, o, 1) \o PayloadsAscending(chunks, orders \ {o})

AllDecodeAsChunks ==
    IsSubsection /\ \A k \in 1..Len(NestedSections) : DecodesAsChunk(NestedSections[k])

\* C8: when every nested section of a subsection decodes as a chunk, the
\* data.payload written is the chunks' payloads concatenated by ascending
\* order number, chunks of equal order number in container order; it is
\* written once (and not at all for a nested container of no section)
C8_PayloadInOrder ==
    AllDecodeAsChunks
    => /\ Cardinality(WritesOf(STR_DATA_PAYLOAD)) = (IF Len(NestedSections) > 0 THEN 1 ELSE 0)
       /\ \A k \in WritesOf(STR_DATA_PAYLOAD) :
             last.events[k].data
                = PayloadsAscending(NestedChunks,
                      {NestedChunks[c].order_number : c \in 1..Len(NestedChunks)})

\* chunks of order numbers 3, 1, 1 have been reassembled: second, third, first
C8_Witness ==
    /\ AllDecodeAsChunks
    /\ [k \in 1..Len(NestedChunks) |-> NestedChunks[k].order_number] = <<3, 1, 1>>
    /\ \E k \in WritesOf(STR_DATA_PAYLOAD) :
          last.events[k].data = NestedChunks[2].data \o NestedChunks[3].data
                                    \o NestedChunks[1].data

\* the records decoded from the information section of the last extract step
DecodedInfo == pfs_info(last.file.sections[Len(last.file.sections)].data.v).val

\* C9 as stated: on a container whose information section has data, the
\* resolver labels a section "Model Properties" exactly when the names it
\* assigned are one fewer than the non-information sections; the section is
\* the last non-information one, no other name is changed by it, and the
\* check never fails, a container of the information section alone included
C9_ModelPropertiesLabel ==
    (IsExtractStep /\ Len(last.file.sections) >= 1
        /\ last.file.sections[Len(last.file.sections)].data_size # 0)
    => LET others == Len(last.file.sections) - 1
           assigned == IF Len(DecodedInfo) < others THEN Len(DecodedInfo) ELSE others
       IN  /\ last.panic = ""
           /\ \A k \in 1..others :
                 last.sections[k].name
                    = IF k <= assigned THEN DecodedInfo[k].name
                      ELSE IF assigned = others - 1 THEN STR_MODEL_PROPERTIES
                      ELSE <<>>
\* the raw blobs a section has, as <<suffix, blob>>, in the order data,
\* data.sig, meta, meta.sig
RawBlobs(sec) ==
    <<<<STR_DATA, sec.data.v>>>>
    \o (IF sec.data_sig_size # 0 THEN <<<<STR_DATA_SIG, sec.data_sig.v>>>> ELSE <<>>)
    \o (IF sec.meta_size # 0 THEN <<<<STR_META, sec.meta.v>>>> ELSE <<>>)
    \o (IF sec.meta_sig_size # 0 THEN <<<<STR_META_SIG, sec.meta_sig.v>>>> ELSE <<>>)

IsEvent(k, what) == k \in 1..Len(last.events) /\ last.events[k].ev = what
IsWrite(k, suffix) == IsEvent(k, "write") /\ EndsWith(last.events[k].name, DOT \o suffix)

\* C10: a section with data first writes its raw blobs (data, then data.sig,
\* meta, meta.sig, each when its size is not zero); only then is the
\* compressed-section attempt made; when it matches, the decompressed buffer
\* is written and pfs_extract called on it, and no nested-container attempt
\* is made; otherwise the nested-container attempt is made, and data.payload
\* is written only after it matched.  So a section writes at most one of
\* decompressed and data.payload, a recursive call comes only from a matched
\* compressed section, on the buffer just decompressed, and an iteration that
\* completes ends in exactly one of the three outcomes
C10_FirstMatchWins ==
    /\ (IsSectionStep /\ last.section.data_size # 0) =>
         LET raw == RawBlobs(last.section)
             r == Len(raw)
             compressed == IsEvent(r + 1, "try_compressed") /\ last.events[r + 1].ok
             nested == IsEvent(r + 2, "try_subsection") /\ last.events[r + 2].ok
         IN  /\ \A k \in 1..r :
                   /\ IsWrite(k, raw[k][1])
                   /\ last.events[k].data = raw[k][2]
             /\ IsEvent(r + 1, "try_compressed")
             /\ \A k \in 1..Len(last.events) :
                   /\ IsEvent(k, "try_compressed") => k = r + 1
                   /\ IsEvent(k, "try_subsection") => (k = r + 2 /\ ~compressed)
                   /\ IsWrite(k, STR_DECOMPRESSED) => (k = r + 2 /\ compressed)
                   /\ IsWrite(k, STR_DATA_PAYLOAD) => (k = r + 3 /\ nested)
                   /\ IsEvent(k, "call") =>
                         /\ k = r + 3 /\ k = Len(last.events)
                         /\ IsWrite(k - 1, STR_DECOMPRESSED)
                         /\ last.events[k].data = last.events[k - 1].data
                         /\ call = [active |-> TRUE, data |-> last.events[k].data,
                                    prefix |-> last.events[k].name]
                   /\ IsEvent(k, "write") => k <= r \/ k = Len(last.events) \/ IsEvent(k + 1, "call")
             /\ Cardinality(WritesOf(STR_DECOMPRESSED))
                   + Cardinality(WritesOf(STR_DATA_PAYLOAD)) <= 1
             /\ last.panic = "" =>
                   \/ compressed /\ IsWrite(r + 2, STR_DECOMPRESSED) /\ IsEvent(r + 3, "call")
                   \/ ~compressed /\ nested /\ Len(last.events) \in {r + 2, r + 3}
                   \/ ~compressed /\ IsEvent(r + 2, "try_subsection") /\ ~nested
                        /\ Len(last.events) = r + 2
    /\ call.active =>
          \/ last.kind = "init"
          \/ IsSectionStep /\ IsEvent(Len(last.events), "call")

\* a compressed section has written its data, its metadata and the
\* decompressed buffer, and calls pfs_extract on it
C10_Witness ==
    /\ IsSectionStep
    /\ call.active
    /\ Len(last.events) = 5
    /\ IsWrite(1, STR_DATA) /\ IsWrite(2, STR_META)
    /\ IsEvent(3, "try_compressed") /\ last.events[3].ok
    /\ IsWrite(4, STR_DECOMPRESSED)
    /\ call.data = last.events[4].data

====
